---- MODULE Spec2Model ----
(***************************************************************************)
(* Oclgrind device core (src/core/Device.cpp): the work-group scheduler,   *)
(* the interactive debugger that drives it, and the error router.          *)
(*                                                                         *)
(* Pointers are handles: a WorkGroup* is the serial number of the          *)
(* instantiation within the run (0 is NULL) and `groups` is the heap of    *)
(* live WorkGroup objects; a WorkItem* is a (group handle, item index)     *)
(* pair.  A handle outside DOMAIN groups is a dangling pointer.            *)
(***************************************************************************)
EXTENDS Integers, Sequences, FiniteSets, TLC

VARIABLES
  m_interactive,      \* OCLGRIND_INTERACTIVE; cleared by quit
  m_quickMode,        \* OCLGRIND_QUICK
  m_globalSize, m_globalOffset, m_localSize, m_numGroups,
  m_kernel,           \* kernel being run, "NULL" outside a run
  m_program,          \* program of the last started kernel
  m_sourceLines,      \* source of the program, split in lines
  m_pendingGroups,    \* list<PendingWorkGroup>
  m_runningGroups,    \* list<WorkGroup*>
  m_currentWorkGroup, \* WorkGroup*
  m_currentWorkItem,  \* WorkItem*
  groups,             \* heap: live WorkGroup objects by handle
  m_running, m_forceBreak, m_listPosition,
  m_breakpoints,      \* map<Program*, map<id, line>>
  m_nextBreakpoint,
  lastBreakLine,      \* static local of cont
  canBreak,           \* local of cont
  prevLine, prevDepth, caller, \* locals of step() / next / step(args)
  constants,          \* kernel constants allocated in global memory
  synced,             \* global memory synchronized since the last WorkItem.step
  pc,                 \* position of the control flow of run
  schedule,           \* history: coordinates instantiated in this run, in order
  enqueued,           \* history: length of the pending list after run's enumeration
  ev,                 \* history: what the WorkItem.step of the last action raised
                      \* ("ok", "notify", "fatal"), "none" when it made no step
  runs,               \* history: number of calls of run so far
  console,            \* history: the last memory command and what it did
  m_showInstCounts,   \* OCLGRIND_INST_COUNTS
  counts,             \* WorkItem's instruction counts, by counted opcode
  reports             \* history: the instruction count reports printed so far

vars == <<m_interactive, m_quickMode, m_globalSize, m_globalOffset, m_localSize,
          m_numGroups, m_kernel, m_program, m_sourceLines, m_pendingGroups,
          m_runningGroups, m_currentWorkGroup, m_currentWorkItem, groups,
          m_running, m_forceBreak, m_listPosition, m_breakpoints,
          m_nextBreakpoint, lastBreakLine, canBreak, prevLine, prevDepth, caller,
          constants, synced, pc, schedule, enqueued, ev, runs, console,
          m_showInstCounts, counts, reports>>

(***************************************************************************)
(* Bounds of the model.                                                    *)
(***************************************************************************)
MaxRuns == 2
MaxBreakpoints == 1
MaxIds == 2

LIST_LENGTH == 10

(***************************************************************************)
(* Programs and kernels (external: Program.h, Kernel.h).  A kernel is a    *)
(* straight line of instructions, each with its debug line (0: none), the  *)
(* call-stack depth it runs at, and whether it is a barrier.               *)
(***************************************************************************)
Programs == {"P1", "P2", "P3", "P4"}

ProgramSource(p) ==
  IF p = "P1" THEN <<"l1", "l2", "l3">>
  ELSE IF p = "P3" THEN <<"m1", "m2">>
  ELSE IF p = "P4" THEN [i \in 1..23 |-> "n"]
  ELSE <<>>

Kernels == {"kA", "kB"}

\* kernels of programs built with debug information: kC is a loop unrolled
\* over two source lines
DebugKernels == {"kA", "kC"}

\* kD has several instructions on one line, one of them in a callee and one
\* without debug line; kB has no debug information and no source
StepKernels == {"kB", "kD"}

\* kL belongs to a program whose source is longer than two listings
ListKernels == {"kB", "kL"}

\* kN calls a function that waits at a barrier
NextKernels == {"kD", "kN"}

\* kI calls a debug intrinsic, loads, adds and waits at a barrier
CountKernels == {"kB", "kI"}

KernelProgram(k) ==
  IF k \in {"kA", "kD", "kN"} THEN "P1"
  ELSE IF k = "kC" THEN "P3"
  ELSE IF k = "kL" THEN "P4"
  ELSE "P2"

Ins(l, d, o) == [line |-> l, depth |-> d, op |-> o]

KernelCode(k) ==
  IF k = "kA" THEN <<Ins(1, 0, "op"), Ins(2, 0, "barrier"), Ins(2, 0, "op")>>
  ELSE IF k = "kC"
  THEN <<Ins(1, 0, "op"), Ins(2, 0, "op"), Ins(1, 0, "op"), Ins(2, 0, "op")>>
  ELSE IF k = "kL"
  THEN <<Ins(2, 0, "op"), Ins(14, 0, "op"), Ins(23, 0, "op")>>
  ELSE IF k = "kN"
  THEN <<Ins(1, 0, "op"), Ins(2, 1, "op"), Ins(2, 1, "barrier"), Ins(2, 1, "op"),
         Ins(3, 0, "op")>>
  ELSE IF k = "kI"
  THEN <<Ins(0, 0, "dbg"), Ins(0, 0, "load"), Ins(0, 0, "op"), Ins(0, 0, "op"),
         Ins(0, 0, "barrier"), Ins(0, 0, "op")>>
  ELSE IF k = "kD"
  THEN <<Ins(1, 0, "op"), Ins(1, 1, "op"), Ins(0, 1, "op"), Ins(3, 0, "barrier"),
         Ins(3, 0, "op")>>
  ELSE <<Ins(0, 0, "op"), Ins(0, 0, "op")>>

(***************************************************************************)
(* WorkItem (external: WorkItem.h).                                        *)
(***************************************************************************)
READY == "READY"
BARRIER == "BARRIER"
FINISHED == "FINISHED"

NotifyKinds == {"memory", "race", "divergence", "error"}

StepOutcomes == {"ok", "fatal"} \cup NotifyKinds

NewWorkItem == [state |-> READY, pos |-> 1]

\* WorkItem::step: execute the current instruction
WorkItemStep(code, it) ==
  IF it.pos >= Len(code) THEN [state |-> FINISHED, pos |-> Len(code) + 1]
  ELSE IF code[it.pos].op = "barrier" THEN [state |-> BARRIER, pos |-> it.pos + 1]
  ELSE [state |-> READY, pos |-> it.pos + 1]

\* getLineNumber(WorkItem::getCurrentInstruction())
InstructionLine(code, it) == IF it.pos > Len(code) THEN 0 ELSE code[it.pos].line

\* WorkItem::getCallStack().size()
CallStackSize(code, it) == IF it.pos > Len(code) THEN 0 ELSE code[it.pos].depth

(***************************************************************************)
(* WorkGroup (external: WorkGroup.h).                                      *)
(***************************************************************************)
NewWorkGroup(gid, local) ==
  [id |-> gid, items |-> [i \in 1..(local[1] * local[2] * local[3]) |-> NewWorkItem]]

\* WorkGroup::getNextWorkItem: the first Ready item, 0 (NULL) when there is none
getNextWorkItem(g) ==
  IF \E i \in DOMAIN g.items : g.items[i].state = READY
  THEN CHOOSE i \in DOMAIN g.items :
         /\ g.items[i].state = READY
         /\ \A j \in DOMAIN g.items : g.items[j].state = READY => i <= j
  ELSE 0

hasBarrier(g) == \E i \in DOMAIN g.items : g.items[i].state = BARRIER

clearBarrier(g) ==
  [g EXCEPT !.items = [i \in DOMAIN g.items |->
     IF g.items[i].state = BARRIER THEN [g.items[i] EXCEPT !.state = READY]
     ELSE g.items[i]]]

\* WorkGroup::getWorkItem(lid): index of the item with local id lid
getWorkItem(lid, local) == 1 + lid[1] + lid[2] * local[1] + lid[3] * local[1] * local[2]

\* local id of the item with index i
LocalID(i, local) ==
  <<(i - 1) % local[1], ((i - 1) \div local[1]) % local[2],
    (i - 1) \div (local[1] * local[2])>>

\* WorkItem::getGlobalID of item i of the group at gid
GlobalID(gid, i, local, offset) ==
  [d \in 1..3 |-> gid[d] * local[d] + LocalID(i, local)[d] + offset[d]]

(***************************************************************************)
(* Device: pointers and getters.                                           *)
(***************************************************************************)
NullItem == [wg |-> 0, lid |-> 0]

ItemPtr(h, i) == IF i = 0 THEN NullItem ELSE [wg |-> h, lid |-> i]

Item(gs, p) == gs[p.wg].items[p.lid]

Drop(gs, h) == [x \in DOMAIN gs \ {h} |-> gs[x]]

EmptyHeap == [x \in {} |-> 0]

\* Device::getCurrentLineNumber of the item `it` (a pointer) in heap gs, running k
getCurrentLineNumber(gs, p, k) ==
  IF p = NullItem \/ Item(gs, p).state = FINISHED THEN 0
  ELSE InstructionLine(KernelCode(k), Item(gs, p))

\* Device::createWorkGroup
createWorkGroup(gid, local) == NewWorkGroup(gid, local)

(***************************************************************************)
(* Device::nextWorkItem, on the scheduler's part of the state:             *)
(* s = [cwg, cwi, run, pend, gs, sched, local], result in s.ret            *)
(***************************************************************************)
\* mutant: the barrier is cleared but no work-item is fetched again
resumeBarrier_NoFetch(s) ==
  [s EXCEPT !.gs[s.cwg] = clearBarrier(s.gs[s.cwg]), !.ret = TRUE]

\* nextWorkItem, "Resume execution": the work-items at the barrier go on
resumeBarrier(s) ==
  LET g2 == clearBarrier(s.gs[s.cwg])
  IN [s EXCEPT !.gs[s.cwg] = g2,
               !.cwi = ItemPtr(s.cwg, getNextWorkItem(g2)),
               !.ret = TRUE]

RECURSIVE nextWorkItem(_)
nextWorkItem(s) ==
  LET s1 == [s EXCEPT !.cwi = NullItem]
      fetch(t) ==
        LET i == getNextWorkItem(t.gs[t.cwg])
        IN IF i = 0 THEN nextWorkItem(t)
           ELSE [t EXCEPT !.cwi = ItemPtr(t.cwg, i), !.ret = TRUE]
      switch(t) ==
        IF t.run # <<>>
        THEN fetch([t EXCEPT !.cwg = Head(t.run), !.run = Tail(t.run)])
        ELSE IF t.pend # <<>>
        THEN LET h == Len(t.sched) + 1
             IN fetch([t EXCEPT !.cwg = h, !.pend = Tail(t.pend),
                         !.gs = (h :> createWorkGroup(Head(t.pend), t.local)) @@ t.gs,
                         !.sched = Append(t.sched, Head(t.pend))])
        ELSE [t EXCEPT !.ret = FALSE]
  IN IF s1.cwg # 0
     THEN LET g == s1.gs[s1.cwg]
          IN IF getNextWorkItem(g) # 0
             THEN [s1 EXCEPT !.cwi = ItemPtr(s1.cwg, getNextWorkItem(g)), !.ret = TRUE]
             ELSE IF hasBarrier(g)
             THEN resumeBarrier(s1)
             ELSE switch([s1 EXCEPT !.gs = Drop(s1.gs, s1.cwg), !.cwg = 0])
     ELSE switch(s1)

Sched == [cwg |-> m_currentWorkGroup, cwi |-> m_currentWorkItem,
          run |-> m_runningGroups, pend |-> m_pendingGroups, gs |-> groups,
          sched |-> schedule, local |-> m_localSize, ret |-> FALSE]

SetSched(s) ==
  /\ m_currentWorkGroup' = s.cwg
  /\ m_currentWorkItem' = s.cwi
  /\ m_runningGroups' = s.run
  /\ m_pendingGroups' = s.pend
  /\ groups' = s.gs
  /\ schedule' = s.sched

(***************************************************************************)
(* Inputs of run: (workDim, globalOffset, globalSize, localSize), arrays   *)
(* of workDim entries, as clEnqueueNDRangeKernel hands them over (each     *)
(* global size a positive multiple of the local size).                     *)
(***************************************************************************)
Inv(d, o, g, l) == [dim |-> d, offset |-> o, size |-> g, local |-> l]

Invocations ==
  { Inv(1, <<0>>, <<2>>, <<2>>),
    Inv(1, <<1>>, <<3>>, <<1>>),
    Inv(2, <<0, 0>>, <<2, 2>>, <<2, 1>>) }

BatchInvocations ==
  Invocations \cup
  { Inv(2, <<0, 0>>, <<4, 2>>, <<2, 1>>),
    Inv(3, <<0, 1, 0>>, <<2, 1, 2>>, <<1, 0, 1>>) }

\* run, "Set-up offsets and sizes"
SizeOf(inv) == [i \in 1..3 |-> IF i <= inv.dim THEN inv.size[i] ELSE 1]

OffsetOf(inv) ==
  [i \in 1..3 |-> IF i <= inv.dim /\ inv.offset[i] # 0 THEN inv.offset[i] ELSE 0]

LocalOf(inv) ==
  [i \in 1..3 |-> IF i <= inv.dim /\ inv.local[i] # 0 THEN inv.local[i] ELSE 1]

NumGroupsOf(inv) == [i \in 1..3 |-> SizeOf(inv)[i] \div LocalOf(inv)[i]]

\* run, "Create pool of pending work-groups": the non-quick enumeration,
\* k outer, j middle, i inner
\* mutant: the loops over i and j are swapped
AllGroups_YInner(n) ==
  [x \in 1..(n[1] * n[2] * n[3]) |->
     <<((x - 1) \div n[2]) % n[1], (x - 1) % n[2], (x - 1) \div (n[1] * n[2])>>]

AllGroups(n) ==
  [x \in 1..(n[1] * n[2] * n[3]) |->
     <<(x - 1) % n[1], ((x - 1) \div n[1]) % n[2], (x - 1) \div (n[1] * n[2])>>]

QuickGroups(n) == << <<0, 0, 0>>, <<n[1] - 1, n[2] - 1, n[3] - 1>> >>

PendingPool(quick, n) == IF quick THEN QuickGroups(n) ELSE AllGroups(n)

\* run, "Get source code (if available) and split into lines"
SplitLines(source) == source

\* what a step outcome is recorded as
Raised(out) == IF out \in NotifyKinds THEN "notify" ELSE out

(***************************************************************************)
(* Instruction counts.  The name of an opcode is the sequence of its       *)
(* pieces: "call " has 5 characters and "llvm.dbg." 9.                     *)
(***************************************************************************)
\* WorkItem::getCountedOpcodeName, by index in the vector of counts
OpcodeNames ==
  << <<"add">>, <<"call ", "barrier">>, <<"call ", "llvm.dbg.", "value">>, <<"load">> >>

\* the index under which WorkItem::step counts an instruction
Opcode(op) ==
  CASE op = "op" -> 1
    [] op = "barrier" -> 2
    [] op = "dbg" -> 3
    [] OTHER -> 4

\* WorkItem::clearInstructionCounts
NoCounts == [i \in 1..Len(OpcodeNames) |-> 0]

\* WorkItem::step counting the instruction it executes
CountInstruction(c, ins) == [c EXCEPT ![Opcode(ins.op)] = @ + 1]

\* name.compare(0, 14, "call llvm.dbg.") == 0
IsDebugCall(name) == Len(name) >= 2 /\ SubSeq(name, 1, 2) = <<"call ", "llvm.dbg.">>

\* mutant: the debug intrinsics are listed
Skipped_ZeroOnly(name, count) == count = 0

\* run, "Generate list named instructions and their counts": the two continue
Skipped(name, count) == count = 0 \/ IsDebugCall(name)

RECURSIVE NamedFrom(_, _)
NamedFrom(c, i) ==
  IF i > Len(c) THEN <<>>
  ELSE IF Skipped(OpcodeNames[i], c[i]) THEN NamedFrom(c, i + 1)
  ELSE << <<OpcodeNames[i], c[i]>> >> \o NamedFrom(c, i + 1)

NamedCounts(c) == NamedFrom(c, 1)

\* compareNamedCount(a, b): a goes before b
compareNamedCount(a, b) == a[2] > b[2]

\* the orders std::sort may leave namedCounts in: no later entry goes before
\* an earlier one
SortedCounts(named) ==
  LET n == Len(named)
      perms == {f \in [1..n -> 1..n] : \A i, j \in 1..n : i # j => f[i] # f[j]}
  IN {[i \in 1..n |-> named[f[i]]] : f \in
        {g \in perms : \A i, j \in 1..n :
           i < j => ~compareNamedCount(named[g[j]], named[g[i]])}}

\* nothing on the console yet
NoCommand ==
  [args |-> <<>>, message |-> "", rows |-> <<>>, loaded |-> {}, dumped |-> FALSE]

\* Device::Device, with OCLGRIND_INST_COUNTS set to "1" or not
Device(instCounts) ==
  /\ m_interactive \in BOOLEAN
  /\ m_quickMode \in BOOLEAN
  /\ m_globalSize = <<1, 1, 1>>
  /\ m_globalOffset = <<0, 0, 0>>
  /\ m_localSize = <<1, 1, 1>>
  /\ m_numGroups = <<1, 1, 1>>
  /\ m_kernel = "NULL"
  /\ m_program = "NULL"
  /\ m_sourceLines = <<>>
  /\ m_pendingGroups = <<>>
  /\ m_runningGroups = <<>>
  /\ m_currentWorkGroup = 0
  /\ m_currentWorkItem = NullItem
  /\ groups = EmptyHeap
  /\ m_running \in BOOLEAN
  /\ m_forceBreak \in BOOLEAN
  /\ m_listPosition = 0
  /\ m_breakpoints = EmptyHeap
  /\ m_nextBreakpoint = 1
  /\ lastBreakLine = 0
  /\ canBreak = FALSE
  /\ prevLine = 0
  /\ prevDepth = 0
  /\ caller = "none"
  /\ constants = FALSE
  /\ synced = TRUE
  /\ pc = "idle"
  /\ schedule = <<>>
  /\ enqueued = 0
  /\ ev = "none"
  /\ runs = 0
  /\ console = NoCommand
  /\ m_showInstCounts = instCounts
  /\ counts = NoCounts
  /\ reports = <<>>

\* the device of a process without OCLGRIND_INST_COUNTS
Init == Device(FALSE)

(***************************************************************************)
(* Device::run up to the dispatch on m_interactive.  allocOK: whether      *)
(* kernel.allocateConstants returns or throws.                             *)
(***************************************************************************)
RunStart(k, inv, allocated) ==
  LET n == NumGroupsOf(inv)
      pend == m_pendingGroups \o PendingPool(m_quickMode, n)
      s == nextWorkItem([cwg |-> 0, cwi |-> NullItem, run |-> m_runningGroups,
                         pend |-> pend, gs |-> groups, sched |-> <<>>,
                         local |-> LocalOf(inv), ret |-> FALSE])
  IN /\ constants' = allocated
     /\ m_numGroups' = n
     /\ enqueued' = Len(pend)
     /\ m_program' = KernelProgram(k)
     /\ m_kernel' = k
     /\ m_listPosition' = 0
     /\ synced' = TRUE
     /\ SetSched(s)
     /\ ev' = IF allocated THEN "none" ELSE "allocfail"
     /\ m_running' = TRUE
     /\ counts' = NoCounts
     /\ IF m_interactive
        THEN /\ m_sourceLines' = SplitLines(ProgramSource(KernelProgram(k)))
             /\ pc' = "prompt"
             /\ UNCHANGED <<m_forceBreak, canBreak>>
        ELSE /\ canBreak' = FALSE
             /\ m_forceBreak' = FALSE
             /\ pc' = "cont"
             /\ UNCHANGED m_sourceLines
     /\ UNCHANGED <<m_interactive, m_quickMode, m_breakpoints, m_nextBreakpoint,
                    lastBreakLine, prevLine, prevDepth, caller>>

\* mutant: the catch block does not return
RunAllocFail_NoReturn(k, inv) == RunStart(k, inv, FALSE)

\* run, the catch block of allocateConstants: report and return
RunAllocFail(k, inv) ==
  /\ ev' = "allocfail"
  /\ UNCHANGED counts
  /\ UNCHANGED <<m_interactive, m_quickMode, m_numGroups, m_kernel, m_program,
                 m_sourceLines, m_pendingGroups, m_runningGroups,
                 m_currentWorkGroup, m_currentWorkItem, groups, m_running,
                 m_forceBreak, m_listPosition, m_breakpoints, m_nextBreakpoint,
                 lastBreakLine, canBreak, prevLine, prevDepth, caller, constants,
                 synced, pc, schedule, enqueued>>

RunWith(ks, invs, limit) ==
  \E k \in ks, inv \in invs, allocOK \in BOOLEAN :
    /\ pc = "idle"
    /\ runs < limit
    /\ m_runningGroups = <<>>
    /\ runs' = runs + 1
    /\ UNCHANGED <<console, m_showInstCounts, reports>>
    /\ m_globalSize' = SizeOf(inv)
    /\ m_globalOffset' = OffsetOf(inv)
    /\ m_localSize' = LocalOf(inv)
    /\ IF allocOK THEN RunStart(k, inv, TRUE) ELSE RunAllocFail(k, inv)

RunOf(invs, limit) == RunWith(Kernels, invs, limit)

Run == RunOf(Invocations, 1)

(***************************************************************************)
(* Error router: the flag after notifyMemoryError, notifyDataRace,         *)
(* notifyDivergence, notifyError.  `out` is what the step raised.          *)
(***************************************************************************)
notifyMemoryError(fb) == TRUE

notifyDataRace(fb) == TRUE

notifyDivergence(fb) == TRUE

\* mutant: the notification does not request a break
notifyError_Lost(fb) == fb

notifyError(fb) == TRUE

Notify(out, fb) ==
  CASE out = "memory" -> notifyMemoryError(fb)
    [] out = "race" -> notifyDataRace(fb)
    [] out = "divergence" -> notifyDivergence(fb)
    [] out = "error" -> notifyError(fb)
    [] OTHER -> fb

\* the heap after m_currentWorkItem->step()
StepCurrent ==
  [groups EXCEPT ![m_currentWorkItem.wg].items[m_currentWorkItem.lid] =
     WorkItemStep(KernelCode(m_kernel), Item(groups, m_currentWorkItem))]

\* m_currentWorkItem->getCurrentInstruction()
CurrentInstruction ==
  KernelCode(m_kernel)[Item(groups, m_currentWorkItem).pos]

CurrentState ==
  IF m_currentWorkItem = NullItem THEN "NULL" ELSE Item(groups, m_currentWorkItem).state

\* the breakpoints of program p (m_breakpoints[p], which creates the entry)
BreakpointsOf(bp, p) == IF p \in DOMAIN bp THEN bp[p] ELSE EmptyHeap

Touch(bp, p) == IF p \in DOMAIN bp THEN bp ELSE (p :> EmptyHeap) @@ bp

\* mutant: the breakpoints of every program are scanned
AtBreakpoint_AnyProgram(bp, p, line) ==
  \E q \in DOMAIN bp : \E id \in DOMAIN bp[q] : bp[q][id] = line

\* cont, "Check if we're at a breakpoint": some breakpoint of the program is on line
AtBreakpoint(bp, p, line) ==
  \E id \in DOMAIN BreakpointsOf(bp, p) : BreakpointsOf(bp, p)[id] = line

(***************************************************************************)
(* Device::cont.  ContEnter is the command; ContStep is one pass of the    *)
(* inner loop, ContNext the call of nextWorkItem after it, ContReturn the  *)
(* exit of the outer loop (and of the command loop, as m_running is false).*)
(***************************************************************************)
\* cont, after m_currentWorkItem->step(): what the rest of the loop body does.
\* fb: m_forceBreak; any: !m_breakpoints.empty(); same: the line is still
\* lastBreakLine and canBreak is not set; hit: a breakpoint of the program is
\* on the line
\* mutant: m_forceBreak is not looked at
AfterStep_NoForce(interactive, fb, any, same, hit) ==
  IF ~interactive THEN "continue"
  ELSE IF ~any THEN "continue"
  ELSE IF same THEN "continue"
  ELSE IF hit THEN "hit"
  ELSE "armed"

\* mutant: m_forceBreak is looked at before m_interactive
AfterStep_BatchBreaks(interactive, fb, any, same, hit) ==
  IF fb THEN "forced"
  ELSE IF ~interactive THEN "continue"
  ELSE IF ~any THEN "continue"
  ELSE IF same THEN "continue"
  ELSE IF hit THEN "hit"
  ELSE "armed"

\* mutant: leaving the line of the last stop ends the continue
AfterStep_ArmedStops(interactive, fb, any, same, hit) ==
  IF ~interactive THEN "continue"
  ELSE IF fb THEN "forced"
  ELSE IF ~any THEN "continue"
  ELSE IF same THEN "continue"
  ELSE "hit"

AfterStep(interactive, fb, any, same, hit) ==
  IF ~interactive THEN "continue"
  ELSE IF fb THEN "forced"
  ELSE IF ~any THEN "continue"
  ELSE IF same THEN "continue"
  ELSE IF hit THEN "hit"
  ELSE "armed"

ContStep ==
  \E out \in StepOutcomes :
    /\ pc = "cont"
    /\ m_running
    /\ CurrentState = READY
    /\ ev' = Raised(out)
    /\ counts' = IF out = "fatal" THEN counts
                 ELSE CountInstruction(counts, CurrentInstruction)
    /\ IF out = "fatal"
       THEN /\ pc' = "teardown"
            /\ canBreak' = FALSE
            /\ UNCHANGED <<groups, synced, m_forceBreak, m_listPosition, lastBreakLine,
                           m_breakpoints>>
       ELSE LET gs == StepCurrent
                fb == Notify(out, m_forceBreak)
                line == getCurrentLineNumber(gs, m_currentWorkItem, m_kernel)
                same == ~canBreak /\ line = lastBreakLine
                hit == AtBreakpoint(m_breakpoints, m_program, line)
                todo == AfterStep(m_interactive, fb, DOMAIN m_breakpoints # {}, same, hit)
            IN /\ groups' = gs
               /\ synced' = FALSE
               /\ m_forceBreak' = IF todo = "forced" THEN FALSE ELSE fb
               /\ m_listPosition' = IF todo \in {"forced", "hit"} THEN 0 ELSE m_listPosition
               /\ pc' = IF todo \in {"forced", "hit"} THEN "prompt" ELSE "cont"
               /\ canBreak' = IF todo = "armed" THEN TRUE
                              ELSE IF todo = "continue" THEN canBreak ELSE FALSE
               /\ lastBreakLine' = IF todo = "hit" THEN line ELSE lastBreakLine
               /\ m_breakpoints' = IF todo \in {"hit", "armed"}
                                   THEN Touch(m_breakpoints, m_program)
                                   ELSE m_breakpoints
    /\ UNCHANGED <<m_interactive, m_quickMode, m_globalSize, m_globalOffset,
                   m_localSize, m_numGroups, m_kernel, m_program, m_sourceLines,
                   m_pendingGroups, m_runningGroups, m_currentWorkGroup,
                   m_currentWorkItem, m_running, m_nextBreakpoint, prevLine,
                   prevDepth, caller, constants, schedule, enqueued, runs, console,
                 m_showInstCounts, reports>>

ContNext ==
  /\ pc = "cont"
  /\ m_running
  /\ m_currentWorkItem # NullItem
  /\ CurrentState # READY
  /\ SetSched(nextWorkItem(Sched))
  /\ ev' = "none"
  /\ UNCHANGED <<m_interactive, m_quickMode, m_globalSize, m_globalOffset,
                 m_localSize, m_numGroups, m_kernel, m_program, m_sourceLines,
                 m_running, m_forceBreak, m_listPosition, m_breakpoints,
                 m_nextBreakpoint, lastBreakLine, canBreak, prevLine, prevDepth,
                 caller, constants, synced, pc, enqueued, runs, console,
                 m_showInstCounts, counts, reports>>

ContReturn ==
  /\ pc = "cont"
  /\ m_currentWorkItem = NullItem \/ ~m_running
  /\ m_running' = FALSE
  /\ pc' = "teardown"
  /\ canBreak' = FALSE
  /\ ev' = "none"
  /\ UNCHANGED <<m_interactive, m_quickMode, m_globalSize, m_globalOffset,
                 m_localSize, m_numGroups, m_kernel, m_program, m_sourceLines,
                 m_pendingGroups, m_runningGroups, m_currentWorkGroup,
                 m_currentWorkItem, groups, m_forceBreak, m_listPosition,
                 m_breakpoints, m_nextBreakpoint, lastBreakLine, prevLine,
                 prevDepth, caller, constants, synced, schedule, enqueued, runs, console,
                 m_showInstCounts, counts, reports>>

(***************************************************************************)
(* run, after the command loop: "Destroy any remaining work-groups",       *)
(* "Deallocate constant memory", m_globalMemory->synchronize().            *)
(***************************************************************************)
DestroyRunning ==
  /\ pc = "teardown"
  /\ groups' = [h \in DOMAIN groups \ {m_runningGroups[i] : i \in DOMAIN m_runningGroups}
                  |-> groups[h]]
  /\ m_runningGroups' = <<>>
  /\ pc' = "destroy"
  /\ ev' = "none"
  /\ UNCHANGED <<m_interactive, m_quickMode, m_globalSize, m_globalOffset,
                 m_localSize, m_numGroups, m_kernel, m_program, m_sourceLines,
                 m_pendingGroups, m_currentWorkGroup, m_currentWorkItem, m_running,
                 m_forceBreak, m_listPosition, m_breakpoints, m_nextBreakpoint,
                 lastBreakLine, canBreak, prevLine, prevDepth, caller, constants,
                 synced, schedule, enqueued, runs, console,
                 m_showInstCounts, counts, reports>>

\* mutant: the current work-group is not deleted
DestroyCurrent_Leak ==
  /\ pc = "destroy"
  /\ pc' = "deallocate"
  /\ ev' = "none"
  /\ UNCHANGED <<m_interactive, m_quickMode, m_globalSize, m_globalOffset,
                 m_localSize, m_numGroups, m_kernel, m_program, m_sourceLines,
                 m_pendingGroups, m_runningGroups, m_currentWorkItem, m_running,
                 m_forceBreak, m_listPosition, m_breakpoints, m_nextBreakpoint,
                 lastBreakLine, canBreak, prevLine, prevDepth, caller, constants,
                 synced, schedule, enqueued, runs, groups, m_currentWorkGroup,
                 console,
                 m_showInstCounts, counts, reports>>

DestroyCurrent ==
  /\ pc = "destroy"
  /\ IF m_currentWorkGroup # 0
     THEN /\ groups' = Drop(groups, m_currentWorkGroup)
          /\ m_currentWorkGroup' = 0
     ELSE UNCHANGED <<groups, m_currentWorkGroup>>
  /\ pc' = "deallocate"
  /\ ev' = "none"
  /\ UNCHANGED <<m_interactive, m_quickMode, m_globalSize, m_globalOffset,
                 m_localSize, m_numGroups, m_kernel, m_program, m_sourceLines,
                 m_pendingGroups, m_runningGroups, m_currentWorkItem, m_running,
                 m_forceBreak, m_listPosition, m_breakpoints, m_nextBreakpoint,
                 lastBreakLine, canBreak, prevLine, prevDepth, caller, constants,
                 synced, schedule, enqueued, runs, console,
                 m_showInstCounts, counts, reports>>

DeallocateConstants ==
  /\ pc = "deallocate"
  /\ constants' = FALSE
  /\ m_kernel' = "NULL"
  /\ pc' = "synchronize"
  /\ ev' = "none"
  /\ UNCHANGED <<m_interactive, m_quickMode, m_globalSize, m_globalOffset,
                 m_localSize, m_numGroups, m_program, m_sourceLines,
                 m_pendingGroups, m_runningGroups, m_currentWorkGroup,
                 m_currentWorkItem, groups, m_running, m_forceBreak,
                 m_listPosition, m_breakpoints, m_nextBreakpoint, lastBreakLine,
                 canBreak, prevLine, prevDepth, caller, synced, schedule, enqueued,
                 runs, console,
                 m_showInstCounts, counts, reports>>

Synchronize ==
  /\ pc = "synchronize"
  /\ synced' = TRUE
  /\ pc' = "idle"
  /\ ev' = "none"
  /\ IF m_showInstCounts
     THEN \E r \in SortedCounts(NamedCounts(counts)) : reports' = Append(reports, r)
     ELSE UNCHANGED reports
  /\ UNCHANGED <<m_interactive, m_quickMode, m_globalSize, m_globalOffset,
                 m_localSize, m_numGroups, m_kernel, m_program, m_sourceLines,
                 m_pendingGroups, m_runningGroups, m_currentWorkGroup,
                 m_currentWorkItem, groups, m_running, m_forceBreak,
                 m_listPosition, m_breakpoints, m_nextBreakpoint, lastBreakLine,
                 canBreak, prevLine, prevDepth, caller, constants, schedule,
                 enqueued, runs, console,
                 m_showInstCounts, counts>>

(***************************************************************************)
(* The command loop of run: one action per command read at the prompt.     *)
(***************************************************************************)
ContEnter ==
  /\ pc = "prompt"
  /\ canBreak' = FALSE
  /\ m_forceBreak' = FALSE
  /\ m_running' = TRUE
  /\ pc' = "cont"
  /\ ev' = "none"
  /\ UNCHANGED <<m_interactive, m_quickMode, m_globalSize, m_globalOffset,
                 m_localSize, m_numGroups, m_kernel, m_program, m_sourceLines,
                 m_pendingGroups, m_runningGroups, m_currentWorkGroup,
                 m_currentWorkItem, groups, m_listPosition, m_breakpoints,
                 m_nextBreakpoint, lastBreakLine, prevLine, prevDepth, caller,
                 constants, synced, schedule, enqueued, runs, console,
                 m_showInstCounts, counts, reports>>

\* mutant: only a finished work-item is refused
StepEnter_AnyState(cmd) ==
  /\ pc = "prompt"
  /\ IF m_currentWorkItem = NullItem
     THEN UNCHANGED <<pc, m_listPosition, prevLine, prevDepth, caller, ev>>
     ELSE IF CurrentState = FINISHED
     THEN /\ m_listPosition' = 0
          /\ ev' = IF m_listPosition = 0 THEN ev ELSE "none"
          /\ UNCHANGED <<pc, prevLine, prevDepth, caller>>
     ELSE /\ pc' = "stepping"
          /\ ev' = "none"
          /\ caller' = cmd
          /\ prevDepth' = CallStackSize(KernelCode(m_kernel), Item(groups, m_currentWorkItem))
          /\ prevLine' = getCurrentLineNumber(groups, m_currentWorkItem, m_kernel)
          /\ UNCHANGED m_listPosition
  /\ UNCHANGED <<m_interactive, m_quickMode, m_globalSize, m_globalOffset,
                 m_localSize, m_numGroups, m_kernel, m_program, m_sourceLines,
                 m_pendingGroups, m_runningGroups, m_currentWorkGroup,
                 m_currentWorkItem, groups, m_running, m_forceBreak, m_breakpoints,
                 m_nextBreakpoint, lastBreakLine, canBreak, constants, synced,
                 schedule, enqueued, runs, console,
                 m_showInstCounts, counts, reports>>

\* Device::step(args) and Device::next up to the first WorkItem.step of step()
StepEnter(cmd) ==
  /\ pc = "prompt"
  /\ IF m_currentWorkItem = NullItem
     THEN UNCHANGED <<pc, m_listPosition, prevLine, prevDepth, caller, ev>>
     ELSE IF CurrentState # READY
     THEN /\ m_listPosition' = 0
          /\ ev' = IF m_listPosition = 0 THEN ev ELSE "none"
          /\ UNCHANGED <<pc, prevLine, prevDepth, caller>>
     ELSE /\ pc' = "stepping"
          /\ ev' = "none"
          /\ caller' = cmd
          /\ prevDepth' = CallStackSize(KernelCode(m_kernel), Item(groups, m_currentWorkItem))
          /\ prevLine' = getCurrentLineNumber(groups, m_currentWorkItem, m_kernel)
          /\ UNCHANGED m_listPosition
  /\ UNCHANGED <<m_interactive, m_quickMode, m_globalSize, m_globalOffset,
                 m_localSize, m_numGroups, m_kernel, m_program, m_sourceLines,
                 m_pendingGroups, m_runningGroups, m_currentWorkGroup,
                 m_currentWorkItem, groups, m_running, m_forceBreak, m_breakpoints,
                 m_nextBreakpoint, lastBreakLine, canBreak, constants, synced,
                 schedule, enqueued, runs, console,
                 m_showInstCounts, counts, reports>>

CmdStep == StepEnter("step")

CmdNext == StepEnter("next")

\* mutant: an instruction without line ends the step
StepAgain_NoZero(state, lines, currLine, startLine) ==
  /\ state = READY
  /\ lines # <<>>
  /\ currLine = startLine

\* mutant: without source the loop goes on while the item is Ready
StepAgain_NoSource(state, lines, currLine, startLine) ==
  state = READY /\ (lines = <<>> \/ currLine = startLine \/ currLine = 0)

\* step(), the exits of the do-while loop: the break when the item is no
\* longer Ready, and the loop condition
StepAgain(state, lines, currLine, startLine) ==
  /\ state = READY
  /\ lines # <<>>
  /\ (currLine = startLine \/ currLine = 0)

\* Device::step(): one pass of its do-while loop, and what follows its exit
\* in step(args) or in the do-while loop of next
StepInstr ==
  \E out \in StepOutcomes :
    /\ pc = "stepping"
    /\ ev' = Raised(out)
    /\ counts' = IF out = "fatal" THEN counts
                 ELSE CountInstruction(counts, CurrentInstruction)
    /\ IF out = "fatal"
       THEN /\ pc' = "teardown"
            /\ caller' = "none"
            /\ prevLine' = 0
            /\ prevDepth' = 0
            /\ UNCHANGED <<groups, synced, m_forceBreak, m_listPosition>>
       ELSE LET gs == StepCurrent
                it == Item(gs, m_currentWorkItem)
                currLine == getCurrentLineNumber(gs, m_currentWorkItem, m_kernel)
                again == StepAgain(it.state, m_sourceLines, currLine, prevLine)
                deeper == /\ caller = "next"
                          /\ CallStackSize(KernelCode(m_kernel), it) > prevDepth
            IN /\ groups' = gs
               /\ synced' = FALSE
               /\ m_forceBreak' = Notify(out, m_forceBreak)
               /\ IF again
                  THEN UNCHANGED <<pc, caller, prevLine, prevDepth, m_listPosition>>
                  ELSE IF deeper /\ it.state = READY
                  THEN /\ prevLine' = currLine
                       /\ UNCHANGED <<pc, caller, prevDepth, m_listPosition>>
                  ELSE IF deeper
                  THEN /\ pc' = "hung"
                       /\ UNCHANGED <<caller, prevLine, prevDepth, m_listPosition>>
                  ELSE /\ pc' = "prompt"
                       /\ m_listPosition' = 0
                       /\ caller' = "none"
                       /\ prevLine' = 0
                       /\ prevDepth' = 0
    /\ UNCHANGED <<m_interactive, m_quickMode, m_globalSize, m_globalOffset,
                   m_localSize, m_numGroups, m_kernel, m_program, m_sourceLines,
                   m_pendingGroups, m_runningGroups, m_currentWorkGroup,
                   m_currentWorkItem, m_running, m_breakpoints, m_nextBreakpoint,
                   lastBreakLine, canBreak, constants, schedule, enqueued, runs, console,
                 m_showInstCounts, reports>>

\* Device::workitem: the arguments, as the global id they parse to
GidArgs == (0..2) \X (0..2) \X (0..1)

\* workitem, "Check if work-group is in running pool" / "in pending pool":
\* the position of the first match, 0 when there is none
FirstRunning(gs, run, group) ==
  IF \E i \in 1..Len(run) : gs[run[i]].id = group
  THEN CHOOSE i \in 1..Len(run) :
         /\ gs[run[i]].id = group
         /\ \A j \in 1..(i - 1) : gs[run[j]].id # group
  ELSE 0

FirstPending(pend, group) ==
  IF \E i \in 1..Len(pend) : pend[i] = group
  THEN CHOOSE i \in 1..Len(pend) :
         /\ pend[i] = group
         /\ \A j \in 1..(i - 1) : pend[j] # group
  ELSE 0

\* mutant: the running entry found is not erased
EraseRunning_Kept(run, i) == run

\* m_runningGroups.erase(rItr)
EraseRunning(run, i) == SubSeq(run, 1, i - 1) \o SubSeq(run, i + 1, Len(run))

\* mutant: the pending entry found is not erased
ErasePending_Kept(pend, i) == pend

\* m_pendingGroups.erase(pItr)
ErasePending(pend, i) == SubSeq(pend, 1, i - 1) \o SubSeq(pend, i + 1, Len(pend))

\* workitem, "Compute work-group ID" and "Get work-item"
\* mutant: the global id is not divided by the local size
TargetGroup_NoDiv(gid, local) == [d \in 1..3 |-> gid[d]]

TargetGroup(gid, local) == [d \in 1..3 |-> gid[d] \div local[d]]

TargetLocal(gid, local) == [d \in 1..3 |-> gid[d] % local[d]]

\* Device::workitem on the scheduler's part of the state, for a valid gid
workitem(s, gid) ==
  LET group == TargetGroup(gid, s.local)
      lid == TargetLocal(gid, s.local)
      r == FirstRunning(s.gs, s.run, group)
      p == FirstPending(s.pend, group)
      h == Len(s.sched) + 1
      t == IF s.gs[s.cwg].id = group THEN [s EXCEPT !.ret = TRUE]
           ELSE IF r # 0
           THEN [s EXCEPT !.cwg = s.run[r], !.run = EraseRunning(s.run, r), !.ret = TRUE]
           ELSE IF p # 0
           THEN [s EXCEPT !.cwg = h, !.pend = ErasePending(s.pend, p),
                          !.gs = (h :> createWorkGroup(group, s.local)) @@ s.gs,
                          !.sched = Append(s.sched, group), !.ret = TRUE]
           ELSE [s EXCEPT !.ret = FALSE]
  IN IF ~t.ret THEN t
     ELSE [t EXCEPT !.run = IF s.cwg # t.cwg THEN Append(t.run, s.cwg) ELSE t.run,
                    !.cwi = ItemPtr(t.cwg, getWorkItem(lid, s.local))]

CmdWorkitem ==
  \E gid \in GidArgs :
    /\ pc = "prompt"
    /\ m_currentWorkGroup # 0
    /\ IF \E d \in 1..3 : gid[d] >= m_globalSize[d]
       THEN UNCHANGED <<m_currentWorkGroup, m_currentWorkItem, m_runningGroups,
                        m_pendingGroups, groups, schedule, ev>>
       ELSE LET s == workitem(Sched, gid)
            IN /\ SetSched(s)
               /\ ev' = IF s.cwi = m_currentWorkItem THEN ev ELSE "none"
    /\ UNCHANGED <<m_interactive, m_quickMode, m_globalSize, m_globalOffset,
                   m_localSize, m_numGroups, m_kernel, m_program, m_sourceLines,
                   m_running, m_forceBreak, m_listPosition, m_breakpoints,
                   m_nextBreakpoint, lastBreakLine, canBreak, prevLine, prevDepth,
                   caller, constants, synced, pc, enqueued, runs, console,
                 m_showInstCounts, counts, reports>>

\* a command argument: absent ("none"), a number, not a number ("junk"), or
\* the answer to a prompt ("y", "n")
Arg(k, v) == [kind |-> k, n |-> v]

\* Device::brk
BreakArgs == {Arg("none", 0), Arg("junk", 0)} \cup {Arg("num", v) : v \in 0..5}

\* mutant: the counter is not advanced
NextId_Stuck(n) == n

\* brk, m_nextBreakpoint++
NextId(n) == n + 1

\* mutant: the last valid line is |source| instead of |source| + 1
InvalidLineNumber_Short(arg, lines) ==
  \/ arg.kind = "junk"
  \/ arg.kind = "num" /\ (arg.n = 0 \/ arg.n > Len(lines))

\* brk, "Invalid line number.": !ss.eof() || !lineNum || lineNum > size + 1
InvalidLineNumber(arg, lines) ==
  \/ arg.kind = "junk"
  \/ arg.kind = "num" /\ (arg.n = 0 \/ arg.n > Len(lines) + 1)

\* Device::brk on the breakpoint map bp and the counter next, for program
\* prog with source `lines` and the current line `current` (0: none)
brk(bp, next, prog, lines, current, arg) ==
  LET lineNum == IF arg.kind = "none" THEN current ELSE arg.n
  IN IF lines = <<>> \/ InvalidLineNumber(arg, lines) \/ lineNum = 0
     THEN [bp |-> bp, next |-> next]
     ELSE [bp |-> [Touch(bp, prog) EXCEPT ![prog] = (next :> lineNum) @@ @],
           next |-> NextId(next)]

BreakOf(limit) ==
  \E arg \in BreakArgs :
    /\ pc = "prompt"
    /\ m_nextBreakpoint <= limit
    /\ LET r == brk(m_breakpoints, m_nextBreakpoint, m_program, m_sourceLines,
                    getCurrentLineNumber(groups, m_currentWorkItem, m_kernel), arg)
       IN /\ m_breakpoints' = r.bp
          /\ m_nextBreakpoint' = r.next
          /\ ev' = IF r.next = m_nextBreakpoint THEN ev ELSE "none"
    /\ UNCHANGED <<m_interactive, m_quickMode, m_globalSize, m_globalOffset,
                   m_localSize, m_numGroups, m_kernel, m_program, m_sourceLines,
                   m_pendingGroups, m_runningGroups, m_currentWorkGroup,
                   m_currentWorkItem, groups, m_running, m_forceBreak,
                   m_listPosition, lastBreakLine, canBreak, prevLine, prevDepth,
                   caller, constants, synced, pc, schedule, enqueued, runs, console,
                 m_showInstCounts, counts, reports>>

CmdBreak == BreakOf(MaxBreakpoints)

\* Device::del: a breakpoint number, "junk", or no argument and the answer
DeleteArgs ==
  {Arg("y", 0), Arg("n", 0), Arg("junk", 0)} \cup {Arg("num", v) : v \in 0..2}

\* mutant: the breakpoint is looked up in every program
del_AnyProgram(bp, prog, arg) ==
  IF arg.kind = "y" THEN EmptyHeap
  ELSE IF arg.kind \in {"n", "junk"} THEN bp
  ELSE [p \in DOMAIN Touch(bp, prog) |->
          [id \in DOMAIN Touch(bp, prog)[p] \ {arg.n} |-> bp[p][id]]]

\* Device::del on the breakpoint map bp while running program prog
del(bp, prog, arg) ==
  IF arg.kind = "y" THEN EmptyHeap
  ELSE IF arg.kind \in {"n", "junk"} THEN bp
  ELSE [Touch(bp, prog) EXCEPT ![prog] = [id \in DOMAIN @ \ {arg.n} |-> @[id]]]

CmdDelete ==
  \E arg \in DeleteArgs :
    /\ pc = "prompt"
    /\ m_breakpoints' = del(m_breakpoints, m_program, arg)
    /\ ev' = IF m_breakpoints' = m_breakpoints THEN ev ELSE "none"
    /\ UNCHANGED <<m_interactive, m_quickMode, m_globalSize, m_globalOffset,
                   m_localSize, m_numGroups, m_kernel, m_program, m_sourceLines,
                   m_pendingGroups, m_runningGroups, m_currentWorkGroup,
                   m_currentWorkItem, groups, m_running, m_forceBreak,
                   m_listPosition, m_nextBreakpoint, lastBreakLine, canBreak,
                   prevLine, prevDepth, caller, constants, synced, pc, schedule,
                   enqueued, runs, console,
                 m_showInstCounts, counts, reports>>

\* Device::quit, also called at end of input; the command loop then ends
CmdQuit ==
  /\ pc = "prompt"
  /\ m_interactive' = FALSE
  /\ m_running' = FALSE
  /\ m_breakpoints' = EmptyHeap
  /\ pc' = "teardown"
  /\ ev' = "none"
  /\ UNCHANGED <<m_quickMode, m_globalSize, m_globalOffset, m_localSize,
                 m_numGroups, m_kernel, m_program, m_sourceLines, m_pendingGroups,
                 m_runningGroups, m_currentWorkGroup, m_currentWorkItem, groups,
                 m_forceBreak, m_listPosition, m_nextBreakpoint, lastBreakLine,
                 canBreak, prevLine, prevDepth, caller, constants, synced, schedule,
                 enqueued, runs, console,
                 m_showInstCounts, counts, reports>>

Command ==
  \/ ContEnter
  \/ CmdStep
  \/ CmdNext
  \/ StepInstr
  \/ CmdWorkitem
  \/ CmdBreak
  \/ CmdDelete
  \/ CmdQuit

Teardown == DestroyRunning \/ DestroyCurrent \/ DeallocateConstants \/ Synchronize

Cont == ContStep \/ ContNext \/ ContReturn

Next == Run \/ Command \/ Cont \/ Teardown

Spec == Init /\ [][Next]_vars

(***************************************************************************)
(* A non-interactive device (OCLGRIND_INTERACTIVE unset) running one       *)
(* kernel: run calls cont once and tears down.  The thread of run keeps    *)
(* going, hence the weak fairness on its steps.                            *)
(***************************************************************************)
InitBatch == Init /\ ~m_interactive

RunBatch == RunOf(BatchInvocations, 1)

NextBatch == RunBatch \/ Cont \/ Teardown

SpecBatch == InitBatch /\ [][NextBatch]_vars /\ WF_vars(Cont \/ Teardown)

(***************************************************************************)
(* A device running several kernels one after the other.                   *)
(***************************************************************************)
RunsInvocations == { Inv(1, <<0>>, <<2>>, <<1>>), Inv(1, <<0>>, <<2>>, <<2>>) }

RunMany == RunOf(RunsInvocations, MaxRuns)

NextRuns == RunMany \/ ContEnter \/ CmdBreak \/ CmdQuit \/ Cont \/ Teardown

SpecRuns == Init /\ [][NextRuns]_vars

(***************************************************************************)
(* Properties.                                                             *)
(***************************************************************************)
Range(seq) == {seq[i] : i \in DOMAIN seq}

Count(seq, x) == Cardinality({i \in DOMAIN seq : seq[i] = x})

\* cont has left its loop with no work-item left: the invocation ran to completion
Completed == pc = "teardown" /\ m_currentWorkItem = NullItem

IsPrefix(a, b) == Len(a) <= Len(b) /\ SubSeq(b, 1, Len(a)) = a

AllFinished(g) == \A i \in DOMAIN g.items : g.items[i].state = FINISHED

C3_QuickCorners ==
  m_quickMode =>
    /\ Len(schedule) = Cardinality(Range(schedule))
    /\ Completed =>
         LET first == <<0, 0, 0>>
             last == <<m_numGroups[1] - 1, m_numGroups[2] - 1, m_numGroups[3] - 1>>
         IN schedule = IF first = last THEN <<first>> ELSE <<first, last>>

\* the command loop waits for a command and there is a current work-group
AtPrompt == pc = "prompt" /\ m_currentWorkGroup # 0

ValidGid(gid) == \A d \in 1..3 : gid[d] < m_globalSize[d]

\* the group of gid is the current group, in the running set or pending
TargetLive(gid) ==
  LET group == [d \in 1..3 |-> gid[d] \div m_localSize[d]]
  IN \/ groups[m_currentWorkGroup].id = group
     \/ \E i \in DOMAIN m_runningGroups : groups[m_runningGroups[i]].id = group
     \/ \E i \in DOMAIN m_pendingGroups : m_pendingGroups[i] = group

\* in the scheduler state t the cursor is on an item of the group of gid, and
\* that item has global id `id`
CursorOn(t, gid, id) ==
  /\ t.cwg # 0
  /\ t.cwg \in DOMAIN t.gs
  /\ t.cwi # NullItem
  /\ t.cwi.wg = t.cwg
  /\ t.cwi.lid \in DOMAIN t.gs[t.cwg].items
  /\ t.gs[t.cwg].id = [d \in 1..3 |-> gid[d] \div m_localSize[d]]
  /\ GlobalID(t.gs[t.cwg].id, t.cwi.lid, m_localSize, m_globalOffset) = id

NextCallSite ==
  pc = "cont" /\ m_running /\ m_currentWorkItem # NullItem /\ CurrentState # READY

\* C5: when nextWorkItem returns true the current item is an item of the
\* current group, also after a barrier was cleared; when it returns false
\* the pending and the running set are empty and the cursor is null.
C5_NextWorkItem ==
  NextCallSite =>
    LET r == nextWorkItem(Sched)
    IN /\ r.ret =>
            /\ r.cwi # NullItem
            /\ r.cwg # 0
            /\ r.cwg \in DOMAIN r.gs
            /\ r.cwi.wg = r.cwg
            /\ r.cwi.lid \in DOMAIN r.gs[r.cwg].items
            /\ Item(r.gs, r.cwi).state = READY
       /\ ~r.ret =>
            /\ r.pend = <<>>
            /\ r.run = <<>>
            /\ r.cwg = 0
            /\ r.cwi = NullItem

\* nextWorkItem is called with every live item of the current group at a barrier
C5_Witness ==
  /\ NextCallSite
  /\ getNextWorkItem(groups[m_currentWorkGroup]) = 0
  /\ hasBarrier(groups[m_currentWorkGroup])
  /\ m_pendingGroups # <<>>

\* C6: a step that raises a notification leaves m_forceBreak set, except in
\* an interactive continue, which consumes the flag: it returns to the
\* command loop at once, with the list position reset.
C6_NotifyBreaks ==
  [][ev' = "notify" =>
       IF pc = "cont" /\ m_interactive
       THEN pc' = "prompt" /\ m_listPosition' = 0
       ELSE m_forceBreak']_vars

\* an interactive continue has returned on a notification
C6_Witness ==
  /\ ev = "notify"
  /\ pc = "prompt"
  /\ m_interactive
  /\ ~m_forceBreak
  /\ m_listPosition = 0

\* continue is about to call WorkItem.step
ContStepSite == pc = "cont" /\ m_running /\ CurrentState = READY

\* C7 as claimed: m_forceBreak is false wherever continue steps a Ready
\* item, interactive or not.
C7_NeverForced == ContStepSite => ~m_forceBreak

\* C7 as amended: in interactive mode m_forceBreak is false wherever
\* continue steps a Ready item.
C7_InteractiveNeverForced == (ContStepSite /\ m_interactive) => ~m_forceBreak

\* an interactive continue goes on after a step
C7_Witness == ContStepSite /\ m_interactive /\ ev = "ok"

\* every enqueued group has been instantiated and destroyed
Drained ==
  /\ m_pendingGroups = <<>>
  /\ m_runningGroups = <<>>
  /\ m_currentWorkGroup = 0
  /\ groups = EmptyHeap
  /\ Len(schedule) = enqueued

\* C8: in a non-interactive run a notification never makes cont return; cont
\* returns, unless a fatal error is thrown, only when every enqueued group
\* has been instantiated, drained and destroyed; and the run returns.
C8_BatchDrains ==
  /\ [][(~m_interactive /\ pc = "cont" /\ ev' = "notify") => pc' = "cont"]_vars
  /\ [][(~m_interactive /\ pc = "cont" /\ pc' # "cont" /\ ev' # "fatal") =>
          Drained']_vars
  /\ [][(~m_interactive /\ pc = "cont") =>
          \A h \in DOMAIN groups \ DOMAIN groups' : AllFinished(groups[h])]_vars
  /\ (~m_interactive /\ pc = "cont") ~> (pc = "idle")

\* a non-interactive run that raised a notification has drained its groups
C8_Witness ==
  /\ ~m_interactive
  /\ pc = "teardown"
  /\ Drained
  /\ m_forceBreak
  /\ Len(schedule) = 4

\* C9: when allocateConstants fails run returns at once: it enqueues no
\* group, instantiates none, steps no work-item, does not enter the command
\* loop, and leaves the pending set, the running set, the cursor and the
\* breakpoints as they were.
C9_AllocFailure ==
  [][ev' = "allocfail" =>
       (/\ pc' = "idle"
        /\ UNCHANGED <<m_pendingGroups, m_runningGroups, m_currentWorkGroup,
                       m_currentWorkItem, groups, schedule, enqueued, m_breakpoints,
                       m_nextBreakpoint, m_running, m_interactive, constants,
                       synced, m_kernel>>)]_vars

\* a run has failed to allocate its constants on a device with groups left
\* pending and a breakpoint set
C9_Witness ==
  /\ ev = "allocfail"
  /\ m_pendingGroups # <<>>
  /\ m_breakpoints # EmptyHeap

\* no live work-group
TornDown == m_runningGroups = <<>> /\ m_currentWorkGroup = 0 /\ groups = EmptyHeap

\* C10: a fatal error thrown by WorkItem.step takes run to its teardown; from
\* there no work-item is stepped, the running set is destroyed before the
\* current group, the constants are deallocated once no group is live, global
\* memory is synchronized after that, and run returns.
C10_FatalUnwinds ==
  /\ [][ev' = "fatal" => pc' = "teardown"]_vars
  /\ [][(pc \in {"teardown", "destroy", "deallocate", "synchronize"}) =>
          (/\ ev' = "none"
           /\ pc' \in {"destroy", "deallocate", "synchronize", "idle"}
           /\ (m_currentWorkGroup' # m_currentWorkGroup => m_runningGroups = <<>>))]_vars
  /\ [](pc = "destroy" =>
          m_runningGroups = <<>> /\ DOMAIN groups \subseteq {m_currentWorkGroup})
  /\ [](pc = "deallocate" => TornDown /\ constants)
  /\ [](pc = "synchronize" => TornDown /\ ~constants)
  /\ [][pc = "synchronize" => pc' = "idle" /\ synced' /\ TornDown' /\ ~constants']_vars

\* run has returned after a fatal error of an interactive run
C10_Witness ==
  /\ pc = "idle"
  /\ runs = 1
  /\ m_interactive
  /\ m_currentWorkItem # NullItem
  /\ TornDown
  /\ ~constants
  /\ synced

\* C11: whenever run has returned, the pending set and the running set are
\* empty and there is no current group, and during a run the groups enqueued
\* are those of the run's own enumeration.
C11_NoLeftovers ==
  /\ (pc = "idle" /\ runs > 0) =>
        /\ m_pendingGroups = <<>>
        /\ m_runningGroups = <<>>
        /\ m_currentWorkGroup = 0
  /\ (pc # "idle" /\ runs > 0) =>
        enqueued = Len(PendingPool(m_quickMode, m_numGroups))

\* no work is left: nothing pending and every item of a live group finished
NothingLeft ==
  /\ m_pendingGroups = <<>>
  /\ \A h \in DOMAIN groups : AllFinished(groups[h])

\* C12: quit (or end of input) leaves interactive mode and the run goes on
\* non-interactively: the command loop is left for the teardown only when no
\* work-item and no pending group is left to execute.
C12_QuitContinues ==
  [][(pc = "prompt" /\ m_interactive /\ ~m_interactive') =>
       (/\ pc' \in {"cont", "teardown"}
        /\ (pc' = "teardown" => NothingLeft'))]_vars

(***************************************************************************)
(* Breakpoints: an interactive device running kernels of three programs,   *)
(* two of them with source, under break, delete, info break, continue and  *)
(* quit.                                                                   *)
(***************************************************************************)
\* info break: the breakpoints listed for program p
InfoBreak(bp, p) == BreakpointsOf(bp, p)

\* Device::info with argument "break" (m_breakpoints[m_program] creates the entry)
CmdInfoBreak ==
  /\ pc = "prompt"
  /\ m_breakpoints' = Touch(m_breakpoints, m_program)
  /\ ev' = IF m_breakpoints' = m_breakpoints THEN ev ELSE "none"
  /\ UNCHANGED <<m_interactive, m_quickMode, m_globalSize, m_globalOffset,
                 m_localSize, m_numGroups, m_kernel, m_program, m_sourceLines,
                 m_pendingGroups, m_runningGroups, m_currentWorkGroup,
                 m_currentWorkItem, groups, m_running, m_forceBreak,
                 m_listPosition, m_nextBreakpoint, lastBreakLine, canBreak,
                 prevLine, prevDepth, caller, constants, synced, pc, schedule,
                 enqueued, runs, console,
                 m_showInstCounts, counts, reports>>

BreakInvocations == { Inv(1, <<0>>, <<1>>, <<1>>), Inv(1, <<0>>, <<2>>, <<2>>) }

InitBreak == Init /\ m_interactive /\ ~m_quickMode

RunBreak == RunWith(Kernels \cup DebugKernels, BreakInvocations, MaxRuns)

CmdBreakMany == BreakOf(MaxIds)

NextBreak ==
  \/ RunBreak
  \/ ContEnter
  \/ CmdBreakMany
  \/ CmdDelete
  \/ CmdInfoBreak
  \/ CmdQuit
  \/ Cont
  \/ Teardown

SpecBreak == InitBreak /\ [][NextBreak]_vars

\* the ids of all breakpoints, of every program
AllIds(bp) == UNION {DOMAIN bp[p] : p \in DOMAIN bp}

\* C13: the ids of the breakpoints come from one counter that only grows: a
\* breakpoint that appears has the counter's value as its id and advances
\* the counter, whatever was deleted before; no id is held by two
\* breakpoints; a breakpoint that stays keeps its program and line, and one
\* disappears only on a command.
C13_IdsIncrease ==
  /\ [](\A p \in DOMAIN m_breakpoints :
          \A id \in DOMAIN m_breakpoints[p] :
            /\ id < m_nextBreakpoint
            /\ \A q \in DOMAIN m_breakpoints \ {p} : id \notin DOMAIN m_breakpoints[q])
  /\ [][(/\ m_nextBreakpoint' >= m_nextBreakpoint
         /\ AllIds(m_breakpoints') \ AllIds(m_breakpoints) \subseteq {m_nextBreakpoint}
         /\ (m_nextBreakpoint' # m_nextBreakpoint) =>
               /\ m_nextBreakpoint' = m_nextBreakpoint + 1
               /\ m_nextBreakpoint \in AllIds(m_breakpoints')
         /\ (AllIds(m_breakpoints') \ AllIds(m_breakpoints) # {}) =>
               m_nextBreakpoint' = m_nextBreakpoint + 1
         /\ \A p \in DOMAIN m_breakpoints :
              \A id \in DOMAIN m_breakpoints[p] :
                id \in AllIds(m_breakpoints') =>
                  /\ p \in DOMAIN m_breakpoints'
                  /\ id \in DOMAIN m_breakpoints'[p]
                  /\ m_breakpoints'[p][id] = m_breakpoints[p][id]
         /\ (AllIds(m_breakpoints) \ AllIds(m_breakpoints') # {}) => pc = "prompt")]_vars

\* two breakpoints on one line of one program, in the second run
C13_Witness ==
  /\ runs = 2
  /\ \E p \in DOMAIN m_breakpoints :
       /\ DOMAIN m_breakpoints[p] = {1, 2}
       /\ m_breakpoints[p][1] = m_breakpoints[p][2]

\* the breakpoints as (program, id, line) triples
Breakpoints(bp) ==
  UNION {{<<p, id, bp[p][id]>> : id \in DOMAIN bp[p]} : p \in DOMAIN bp}

CurrentLine == getCurrentLineNumber(groups, m_currentWorkItem, m_kernel)

\* C14: at the prompt, `break N` installs a breakpoint on line N exactly
\* when there is source and 1 <= N <= |source| + 1, and `break` installs one
\* on the current line exactly when there is source and a current line; a
\* break that is rejected (no source, N = 0, N too large, N not a number,
\* no current line) leaves the breakpoints and the counter as they were.
C14_BreakInstalls ==
  pc = "prompt" =>
    \A arg \in BreakArgs :
      LET r == brk(m_breakpoints, m_nextBreakpoint, m_program, m_sourceLines,
                   CurrentLine, arg)
          line == IF arg.kind = "none" THEN CurrentLine ELSE arg.n
          accepted ==
            /\ m_sourceLines # <<>>
            /\ \/ arg.kind = "num" /\ 1 <= arg.n /\ arg.n <= Len(m_sourceLines) + 1
               \/ arg.kind = "none" /\ CurrentLine # 0
      IN IF accepted
         THEN /\ Breakpoints(r.bp) =
                   Breakpoints(m_breakpoints) \cup {<<m_program, m_nextBreakpoint, line>>}
              /\ r.next = m_nextBreakpoint + 1
         ELSE r.bp = m_breakpoints /\ r.next = m_nextBreakpoint

\* a prompt with source, a breakpoint installed before, and no current line
C14_Witness ==
  /\ pc = "prompt"
  /\ m_sourceLines # <<>>
  /\ CurrentLine = 0
  /\ Breakpoints(m_breakpoints) # {}

\* C15: at the prompt, `delete N` removes the breakpoint with id N of the
\* current program, if there is one, and no other breakpoint of any program;
\* `delete` answered y removes the breakpoints of all programs; `delete`
\* answered otherwise, or given something that is not a number, changes
\* nothing.
C15_DeleteFrame ==
  pc = "prompt" =>
    \A arg \in DeleteArgs :
      LET r == del(m_breakpoints, m_program, arg)
      IN CASE arg.kind = "num" ->
                Breakpoints(r) =
                  {b \in Breakpoints(m_breakpoints) :
                     ~(b[1] = m_program /\ b[2] = arg.n)}
           [] arg.kind = "y" -> Breakpoints(r) = {}
           [] OTHER -> r = m_breakpoints

\* one of two breakpoints has been deleted by its id, and the one that is
\* left belongs to a program other than the current one
C15_Witness ==
  /\ pc = "prompt"
  /\ m_nextBreakpoint = 3
  /\ Cardinality(Breakpoints(m_breakpoints)) = 1
  /\ \A b \in Breakpoints(m_breakpoints) : b[1] # m_program /\ b[2] = 2

\* C16: breakpoints are kept per program.  Only a command at the prompt
\* changes them, so they survive the end of a run and the start of the
\* next; a breakpoint that appears belongs to the program being run; info
\* break lists exactly the breakpoints of the program being run; a continue
\* stops without a notification only on a line that holds a breakpoint of
\* the program being run; and quit leaves no breakpoint of any program.
C16_PerProgram ==
  /\ [][(pc # "prompt") =>
          Breakpoints(m_breakpoints') = Breakpoints(m_breakpoints)]_vars
  /\ [][\A b \in Breakpoints(m_breakpoints') \ Breakpoints(m_breakpoints) :
          b[1] = m_program]_vars
  /\ [](pc = "prompt" =>
          {<<m_program, id, InfoBreak(m_breakpoints, m_program)[id]>> :
              id \in DOMAIN InfoBreak(m_breakpoints, m_program)}
            = {b \in Breakpoints(m_breakpoints) : b[1] = m_program})
  /\ [][(pc = "cont" /\ pc' = "prompt" /\ ev' # "notify") =>
          \E b \in Breakpoints(m_breakpoints) :
            b[1] = m_program /\ b[3] = CurrentLine']_vars
  /\ [][(pc = "prompt" /\ m_interactive /\ ~m_interactive') =>
          Breakpoints(m_breakpoints') = {}]_vars

\* in a second run a continue has stopped at a breakpoint of the program
\* being run while another program has a breakpoint too
C16_Witness ==
  /\ runs = 2
  /\ pc = "prompt"
  /\ ev = "ok"
  /\ \E b \in Breakpoints(m_breakpoints) : b[1] = m_program /\ b[3] = CurrentLine
  /\ \E b \in Breakpoints(m_breakpoints) : b[1] # m_program

\* C17: the latch of continue never hides an arrival: when a step of an
\* interactive continue moves the current item from another line onto a line
\* that holds a breakpoint of the program, and raises no notification, the
\* continue stops there, whatever line an earlier continue, an earlier run
\* or another work-item stopped on.
C17_LatchReset ==
  [][(/\ pc = "cont"
      /\ m_interactive
      /\ ev' = "ok"
      /\ CurrentLine' # CurrentLine
      /\ \E b \in Breakpoints(m_breakpoints) :
           b[1] = m_program /\ b[3] = CurrentLine') =>
        pc' = "prompt"]_vars

(***************************************************************************)
(* Stepping: an interactive device under step, next and continue.          *)
(***************************************************************************)
StepInvocations == { Inv(1, <<0>>, <<2>>, <<2>>), Inv(1, <<0>>, <<2>>, <<1>>) }

InitStep == Init /\ m_interactive

RunStep == RunWith(StepKernels, StepInvocations, 1)

NextStep ==
  \/ RunStep
  \/ CmdStep
  \/ CmdNext
  \/ StepInstr
  \/ ContEnter
  \/ Cont
  \/ Teardown

SpecStep == InitStep /\ [][NextStep]_vars

\* a WorkItem.step issued by the step command, which threw no fatal error
StepCmdStep == pc = "stepping" /\ caller = "step" /\ ev' # "fatal"

\* what all steps of step share: only a Ready item is stepped, the current
\* group and the current item stay, and without source one WorkItem.step is
\* issued
StepFrame ==
  /\ [](pc = "stepping" => CurrentState = READY)
  /\ [][(pc = "stepping" \/ pc' = "stepping") =>
          UNCHANGED <<m_currentWorkGroup, m_currentWorkItem>>]_vars
  /\ [][(pc = "prompt" /\ pc' = "prompt") =>
          (m_currentWorkItem' = m_currentWorkItem => groups' = groups)]_vars
  /\ [][(StepCmdStep /\ m_sourceLines = <<>>) => pc' = "prompt"]_vars

ListArgs ==
  {Arg("none", 0), Arg("back", 0), Arg("junk", 0)} \cup
  {Arg("num", v) : v \in {0, 3, 6, 14, 23, 40}}

\* mutant: the next block starts on the last line of the previous one
ForwardStart_Overlap(pos, current) ==
  IF pos # 0 THEN pos + LIST_LENGTH - 1 ELSE current + 1

\* list, "Starting position is the previous list position + LIST_LENGTH"
ForwardStart(pos, current) ==
  IF pos # 0 THEN pos + LIST_LENGTH ELSE current + 1

\* list, "Starting position is the previous list position - LIST_LENGTH"
BackwardStart(pos, current) ==
  LET from == IF pos # 0 THEN pos ELSE current
  IN IF from > LIST_LENGTH THEN from - LIST_LENGTH ELSE 1

\* list, "Display lines": the numbers of the lines printed from start
Display(start, lines) ==
  [i \in 1..(IF start > Len(lines) THEN 0
             ELSE IF start + LIST_LENGTH - 1 > Len(lines) THEN Len(lines) - start + 1
             ELSE LIST_LENGTH) |-> start + i - 1]

\* Device::list with list position pos, source `lines`, the current line, and
\* whether there is a current work-item: the new list position and the
\* lines printed
list(pos, lines, current, item, arg) ==
  IF ~item \/ lines = <<>> \/ arg.kind = "junk"
  THEN [pos |-> pos, printed |-> <<>>]
  ELSE IF arg.kind = "num"
  THEN LET start == IF arg.n > LIST_LENGTH \div 2 THEN arg.n - LIST_LENGTH \div 2 ELSE 1
       IN [pos |-> start, printed |-> Display(start, lines)]
  ELSE IF arg.kind = "back"
  THEN LET start == BackwardStart(pos, current)
       IN [pos |-> start, printed |-> Display(start, lines)]
  ELSE LET start == ForwardStart(pos, current)
       IN IF start >= Len(lines) + 1
          THEN [pos |-> Len(lines) + 1, printed |-> <<>>]
          ELSE [pos |-> start, printed |-> Display(start, lines)]

CmdList ==
  \E arg \in ListArgs :
    /\ pc = "prompt"
    /\ m_listPosition' =
         list(m_listPosition, m_sourceLines,
              getCurrentLineNumber(groups, m_currentWorkItem, m_kernel),
              m_currentWorkItem # NullItem, arg).pos
    /\ UNCHANGED <<m_interactive, m_quickMode, m_globalSize, m_globalOffset,
                   m_localSize, m_numGroups, m_kernel, m_program, m_sourceLines,
                   m_pendingGroups, m_runningGroups, m_currentWorkGroup,
                   m_currentWorkItem, groups, m_running, m_forceBreak,
                   m_breakpoints, m_nextBreakpoint, lastBreakLine, canBreak,
                   prevLine, prevDepth, caller, constants, synced, pc, schedule,
                   enqueued, runs, ev, console,
                 m_showInstCounts, counts, reports>>

ListInvocations == { Inv(1, <<0>>, <<1>>, <<1>>) }

InitList == Init /\ m_interactive /\ ~m_quickMode

RunList == RunWith(ListKernels, ListInvocations, 1)

NextList ==
  \/ RunList
  \/ CmdList
  \/ CmdStep
  \/ StepInstr
  \/ ContEnter
  \/ Cont
  \/ Teardown

SpecList == InitList /\ [][NextList]_vars

Max(a, b) == IF a >= b THEN a ELSE b

\* the lines start .. start + 9 that exist
Block(start, lines) == {l \in start..(start + 9) : l <= Len(lines)}

\* list at the prompt, in the state reached
ListAt(pos, arg) ==
  list(pos, m_sourceLines, CurrentLine, m_currentWorkItem # NullItem, arg)

\* C19: at a prompt with source, list n starts at max(1, n - 5); list -
\* starts at max(1, p - 10) where p is the list position or, when that is not
\* set, the current line; list starts at the list position + 10 or, when
\* that is not set, at the current line + 1, and when this start is past the
\* last line it prints nothing and sets the list position to |lines| + 1.
\* Otherwise list prints the lines start .. start + 9 that exist and sets
\* the list position to start, so that a second list prints the block that
\* follows the block of the first.
C19_ListStart ==
  (pc = "prompt" /\ m_sourceLines # <<>>) =>
    /\ \A arg \in ListArgs :
         LET r == ListAt(m_listPosition, arg)
             p == IF m_listPosition # 0 THEN m_listPosition ELSE CurrentLine
             start == CASE arg.kind = "num" -> Max(1, arg.n - 5)
                        [] arg.kind = "back" -> Max(1, p - 10)
                        [] OTHER -> IF m_listPosition # 0 THEN m_listPosition + 10
                                    ELSE CurrentLine + 1
         IN IF arg.kind = "junk"
            THEN r.pos = m_listPosition /\ r.printed = <<>>
            ELSE IF arg.kind = "none" /\ start > Len(m_sourceLines)
            THEN r.pos = Len(m_sourceLines) + 1 /\ r.printed = <<>>
            ELSE /\ r.pos = start
                 /\ Range(r.printed) = Block(start, m_sourceLines)
                 /\ \A i \in 1..Len(r.printed) : r.printed[i] = start + i - 1
    /\ LET r1 == ListAt(m_listPosition, Arg("none", 0))
           r2 == ListAt(r1.pos, Arg("none", 0))
       IN /\ Range(r1.printed) \cap Range(r2.printed) = {}
          /\ (r2.printed # <<>>) =>
                /\ Len(r1.printed) = 10
                /\ r2.printed[1] = r1.printed[10] + 1

\* list has gone through the whole source and parked the list position
C19_Witness ==
  /\ pc = "prompt"
  /\ Len(m_sourceLines) > 20
  /\ m_listPosition = Len(m_sourceLines) + 1
  /\ CurrentLine = 2

(***************************************************************************)
(* Memory commands: gm, lm and pm at the prompt.  A command line is the    *)
(* sequence of its tokens, a token the sequence of its characters.         *)
(***************************************************************************)
Digits ==
  <<"0", "1", "2", "3", "4", "5", "6", "7", "8", "9", "a", "b", "c", "d", "e", "f">>

IsDigit(c, base) == \E i \in 1..base : Digits[i] = c

DigitValue(c) == (CHOOSE i \in 1..Len(Digits) : Digits[i] = c) - 1

\* stringstream >> of an unsigned number in `base`, reading tok from
\* character i on: the value of the longest prefix of digits (0 when there
\* is none) and whether the stream reached its end
RECURSIVE Extract(_, _, _, _)
Extract(tok, base, i, acc) ==
  IF i <= Len(tok) /\ IsDigit(tok[i], base)
  THEN Extract(tok, base, i + 1, acc * base + DigitValue(tok[i]))
  ELSE [value |-> acc, eof |-> i > Len(tok)]

\* the bytes of the global memory, of the local memory of the current
\* work-group and of the private memory of the current work-item
Extent(space) == IF space = "g" THEN 12 ELSE IF space = "l" THEN 8 ELSE 4

\* Memory::isAddressValid
isAddressValid(space, address, size) == address + size <= Extent(space)

\* mutant: any address that is a number goes through
InvalidAddress_Unaligned(a) == ~a.eof

\* mem, "Get target address"
InvalidAddress(a) == ~a.eof \/ a.value % 4 # 0

\* mem, "Get optional size"
SizeOf_mem(args) ==
  IF Len(args) = 3 THEN Extract(args[3], 10, 1, 0) ELSE [value |-> 8, eof |-> TRUE]

\* mem, "Output data": the rows printed for bytes i .. size-1, each with the
\* address printed in front and the addresses of the bytes printed after it
RECURSIVE Output(_, _, _, _)
Output(address, size, i, rows) ==
  IF i >= size THEN rows
  ELSE IF i % 4 = 0
  THEN Output(address, size, i + 1,
              Append(rows, [address |-> address + i, bytes |-> <<address + i>>]))
  ELSE Output(address, size, i + 1,
              [rows EXCEPT ![Len(rows)].bytes = Append(@, address + i)])

\* what a memory command prints
Said(args, text) == [NoCommand EXCEPT !.args = args, !.message = text]

\* Device::mem
mem(args) ==
  LET space == args[1][1]
  IN IF Len(args) = 1 THEN [NoCommand EXCEPT !.args = args, !.dumped = TRUE]
     ELSE IF Len(args) > 3 THEN Said(args, "Invalid number of arguments.")
     ELSE LET a == Extract(args[2], 16, 1, 0)
              s == SizeOf_mem(args)
          IN IF InvalidAddress(a) THEN Said(args, "Invalid address.")
             ELSE IF ~s.eof \/ s.value = 0 THEN Said(args, "Invalid size")
             ELSE IF ~isAddressValid(space, a.value, s.value)
             THEN Said(args, "Invalid memory address.")
             ELSE [args |-> args, message |-> "",
                   rows |-> Output(a.value, s.value, 0, <<>>),
                   loaded |-> a.value..(a.value + s.value - 1),
                   dumped |-> FALSE]

MemNames == { <<"g", "m">>, <<"l", "m">>, <<"p", "m">>, <<"g", "m", "e", "m">> }

AddressTokens ==
  { <<"0">>, <<"4">>, <<"8">>, <<"2">>, <<"c">>, <<"1", "0">>, <<"0", "4">>,
    <<"g">>, <<"4", "g">> }

SizeTokens ==
  { <<"0">>, <<"3">>, <<"4">>, <<"6">>, <<"8">>, <<"1", "2">>, <<"0", "0">>,
    <<"a">>, <<"4", "x">> }

MemCommands ==
  {<<c>> : c \in MemNames} \cup
  {<<c, a>> : c \in MemNames, a \in AddressTokens} \cup
  {<<c, a, s>> : c \in MemNames, a \in AddressTokens, s \in SizeTokens} \cup
  {<<c, a, s, s>> : c \in MemNames, a \in {<<"0">>}, s \in {<<"4">>}}

CmdMem ==
  \E args \in MemCommands :
    /\ pc = "prompt"
    /\ console' = mem(args)
    /\ UNCHANGED <<m_interactive, m_quickMode, m_globalSize, m_globalOffset,
                   m_localSize, m_numGroups, m_kernel, m_program, m_sourceLines,
                   m_pendingGroups, m_runningGroups, m_currentWorkGroup,
                   m_currentWorkItem, groups, m_running, m_forceBreak,
                   m_listPosition, m_breakpoints, m_nextBreakpoint,
                   lastBreakLine, canBreak, prevLine, prevDepth, caller,
                   constants, synced, pc, schedule, enqueued, runs, ev,
                   m_showInstCounts, counts, reports>>

MemInvocations == { Inv(1, <<0>>, <<1>>, <<1>>) }

InitMem == Init /\ m_interactive /\ ~m_quickMode

RunMem == RunWith(Kernels, MemInvocations, 1)

NextMem ==
  \/ RunMem
  \/ CmdMem
  \/ ContEnter
  \/ Cont
  \/ Teardown

SpecMem == InitMem /\ [][NextMem]_vars

\* tok is written with digits of `base` only
IsNumber(tok, base) == \A i \in 1..Len(tok) : IsDigit(tok[i], base)

RECURSIVE NumberOf(_, _)
NumberOf(tok, base) ==
  IF tok = <<>> THEN 0
  ELSE NumberOf(SubSeq(tok, 1, Len(tok) - 1), base) * base + DigitValue(tok[Len(tok)])

\* C20: after a memory command with an address and at most a size, memory
\* has been loaded only if the address is a hexadecimal number that is a
\* multiple of 4, the size (8 when not given) is a decimal number other than
\* 0 and the region is valid; in that case exactly the bytes addr ..
\* addr+size-1 were loaded, and every row printed holds between 1 and 4 of
\* them and starts at an address that is a multiple of 4.  Otherwise nothing
\* was loaded, no row was printed and one message was printed.
C20_MemChecked ==
  (Len(console.args) \in {2, 3}) =>
    LET a == console.args[2]
        given == Len(console.args) = 3
        addr == NumberOf(a, 16)
        size == IF given THEN NumberOf(console.args[3], 10) ELSE 8
        ok == /\ IsNumber(a, 16)
              /\ addr % 4 = 0
              /\ given => IsNumber(console.args[3], 10)
              /\ size # 0
              /\ isAddressValid(console.args[1][1], addr, size)
    IN IF ok
       THEN /\ console.loaded = addr..(addr + size - 1)
            /\ console.message = ""
            /\ \A r \in 1..Len(console.rows) :
                 /\ Len(console.rows[r].bytes) \in 1..4
                 /\ console.rows[r].address % 4 = 0
                 /\ console.rows[r].address = console.rows[r].bytes[1]
            /\ UNION {Range(console.rows[r].bytes) : r \in 1..Len(console.rows)}
                 = console.loaded
       ELSE /\ console.loaded = {}
            /\ console.rows = <<>>
            /\ console.message # ""
            /\ ~console.dumped

\* a read of 6 bytes from address 4: a full row and a row of two bytes
C20_Witness ==
  /\ Len(console.args) = 3
  /\ console.loaded = 4..9
  /\ Len(console.rows) = 2
  /\ Len(console.rows[2].bytes) = 2

(***************************************************************************)
(* Race reports: the entity a data race is reported against.               *)
(***************************************************************************)
\* notifyDataRace, "Show details of other entity involved in race": the
\* coordinates printed for the linear id against the sizes
Delinearize(id, size) ==
  LET gx == id % size[1]
      gy == (id - gx) \div size[2]
      gz == (id - gy - gx) \div size[3]
  IN <<gx, gy, gz>>

\* the linear id the memory keeps for a coordinate
Linearize(g, size) == g[1] + (g[2] + g[3] * size[2]) * size[1]

Volume(size) == size[1] * size[2] * size[3]

RoundTrip(size) ==
  \A id \in 0..(Volume(size) - 1) :
    LET g == Delinearize(id, size)
    IN /\ Linearize(g, size) = id
       /\ \A d \in 1..3 : g[d] < size[d]

\* C21: when a data race is reported, every linear work-item id below the
\* product of the global size decodes to a coordinate that lies inside the
\* global size and linearizes back to the id, and every linear group id
\* below the number of groups does so against the numbers of groups.
C21_RoundTrip ==
  (ev = "notify") => (RoundTrip(m_globalSize) /\ RoundTrip(m_numGroups))

(***************************************************************************)
(* Instruction counts: batch runs of a device with or without              *)
(* OCLGRIND_INST_COUNTS.                                                   *)
(***************************************************************************)
CountInvocations == { Inv(1, <<0>>, <<2>>, <<2>>), Inv(1, <<0>>, <<2>>, <<1>>) }

InitCounts == (Device(TRUE) \/ Device(FALSE)) /\ ~m_interactive

RunCounts == RunWith(CountKernels, CountInvocations, MaxRuns)

NextCounts == RunCounts \/ Cont \/ Teardown

SpecCounts == InitCounts /\ [][NextCounts]_vars

\* how many instructions of the code are counted under index i
Occurrences(code, i) == Cardinality({p \in DOMAIN code : Opcode(code[p].op) = i})

\* the instructions a run executes when all its work-items finish
WholeRun(i) ==
  Len(schedule) * Volume(m_localSize) * Occurrences(KernelCode(m_kernel), i)

\* C22: a report is printed only by the last step of run, after the groups
\* are destroyed and the constants deallocated, and exactly when
\* m_showInstCounts is set; it holds one line for each opcode whose count is
\* not zero and whose name does not begin with "call llvm.dbg.", with the
\* count of that opcode, the counts never increasing down the report; a run
\* starts its steps with all counts zero, and when all its work-items have
\* finished the counts are those of the instructions of this run alone.
C22_InstCountReport ==
  [][/\ (reports' # reports \/ (pc = "synchronize" /\ m_showInstCounts)) =>
          /\ m_showInstCounts
          /\ pc = "synchronize" /\ pc' = "idle"
          /\ TornDown /\ ~constants
          /\ Len(reports') = Len(reports) + 1
          /\ SubSeq(reports', 1, Len(reports)) = reports
          /\ LET r == reports'[Len(reports')]
                 listed == {i \in DOMAIN OpcodeNames :
                              counts[i] # 0 /\ ~IsDebugCall(OpcodeNames[i])}
             IN /\ Range(r) = {<<OpcodeNames[i], counts[i]>> : i \in listed}
                /\ Len(r) = Cardinality(listed)
                /\ \A i \in 1..(Len(r) - 1) : r[i][2] >= r[i + 1][2]
     /\ (pc = "idle" /\ pc' # "idle") => \A i \in DOMAIN counts' : counts'[i] = 0
     /\ (pc = "deallocate" /\ m_currentWorkItem = NullItem) =>
          \A i \in DOMAIN counts : counts[i] = WholeRun(i)
    ]_vars

\* two reports: one of kI with two work-items (6 add, then load and barrier
\* in either order, no debug call), one of a later run of kB
C22_Witness ==
  /\ Len(reports) = 2
  /\ Len(reports[1]) = 3
  /\ reports[1][1] = <<OpcodeNames[1], 6>>
  /\ reports[1][2] = <<OpcodeNames[4], 2>>
  /\ reports[2] = << <<OpcodeNames[1], 4>> >>

(***************************************************************************)
(* The cursor: m_currentWorkGroup and m_currentWorkItem.                   *)
(***************************************************************************)
\* m_currentWorkItem points to a work-item of the live group m_currentWorkGroup
CursorInGroup ==
  /\ m_currentWorkGroup # 0
  /\ m_currentWorkGroup \in DOMAIN groups
  /\ m_currentWorkItem.wg = m_currentWorkGroup
  /\ m_currentWorkItem.lid \in DOMAIN groups[m_currentWorkGroup].items

\* C23: between commands and after run has returned, a current work-item
\* that is set is a work-item of the current work-group, which is live.
C23_Cursor ==
  (pc \in {"prompt", "idle"} /\ m_currentWorkItem # NullItem) => CursorInGroup

\* C24: a step of an interactive continue goes to the prompt only after a
\* WorkItem.step that raised a notification or left the work-item on a line
\* holding a breakpoint of the program; it leaves the command loop only on a
\* fatal error or when nextWorkItem found no work-item, with no group
\* pending or running; otherwise it stays in continue, and when the current
\* work-item is not Ready the step is the call of nextWorkItem.
C24_ContinueYields ==
  [][(pc = "cont" /\ m_interactive) =>
       /\ pc' \in {"cont", "prompt", "teardown"}
       /\ (pc' = "prompt") =>
            /\ CurrentState = READY
            /\ ev' \in {"ok", "notify"}
            /\ ev' = "notify" \/ AtBreakpoint(m_breakpoints, m_program, CurrentLine')
       /\ (pc' = "teardown") =>
            \/ ev' = "fatal"
            \/ /\ m_currentWorkItem = NullItem
               /\ m_pendingGroups = <<>> /\ m_runningGroups = <<>>
       /\ (CurrentState \in {BARRIER, FINISHED}) =>
            LET s == nextWorkItem(Sched)
            IN /\ pc' = "cont"
               /\ m_currentWorkItem' = s.cwi
               /\ m_currentWorkGroup' = s.cwg
               /\ m_runningGroups' = s.run
               /\ m_pendingGroups' = s.pend
     ]_vars

\* a continue has stopped at a breakpoint, and the second work-item of a
\* group is at the prompt on that line after a step that raised nothing
C24_Witness ==
  /\ pc = "prompt"
  /\ ev = "ok"
  /\ m_currentWorkItem.lid = 2
  /\ lastBreakLine # 0
  /\ lastBreakLine = CurrentLine

(***************************************************************************)
(* The loop of step().                                                     *)
(***************************************************************************)
\* a WorkItem.step issued by the loop of step(), which threw no fatal error
LoopStep == pc = "stepping" /\ ev' # "fatal"

\* the loop of step() issues another WorkItem.step
LoopGoesOn == pc' = "stepping" /\ UNCHANGED <<prevLine, prevDepth, caller>>

\* step() has returned: to the prompt, or to next, which calls it again or
\* spins on an item that is not Ready
LoopStops ==
  \/ pc' = "prompt"
  \/ /\ caller = "next"
     /\ pc' \in {"stepping", "hung"}
     /\ prevLine' = CurrentLine'

\* C25 as claimed: after a WorkItem.step of the loop, the loop issues
\* another one exactly when the item is Ready and there is no source, or the
\* item is Ready and the line is the line the loop started on or 0.
C25_LoopWhileNoSource ==
  [][LoopStep =>
       IF /\ CurrentState' = READY
          /\ \/ m_sourceLines = <<>>
             \/ CurrentLine' = prevLine
             \/ CurrentLine' = 0
       THEN LoopGoesOn
       ELSE LoopStops]_vars

\* C25 as amended: the loop issues another WorkItem.step exactly when the
\* item is Ready, source is loaded, and the line is the line the loop
\* started on or 0; without source it stops after one WorkItem.step.
C25_LoopWhileSameLine ==
  [][LoopStep =>
       IF /\ CurrentState' = READY
          /\ m_sourceLines # <<>>
          /\ \/ CurrentLine' = prevLine
             \/ CurrentLine' = 0
       THEN LoopGoesOn
       ELSE LoopStops]_vars

\* the loop goes on through an instruction without line
C25_Witness ==
  /\ pc = "stepping"
  /\ ev = "ok"
  /\ m_sourceLines # <<>>
  /\ CurrentState = READY
  /\ prevLine # 0
  /\ CurrentLine = 0

(***************************************************************************)
(* The order in which groups become current.                               *)
(***************************************************************************)
\* seq without its entry at one position holding x, the rest in order
Without(seq, x) ==
  {SubSeq(seq, 1, i - 1) \o SubSeq(seq, i + 1, Len(seq)) :
     i \in {j \in 1..Len(seq) : seq[j] = x}}

\* nextWorkItem is called with a current group that has no Ready item and
\* no item at a barrier
GroupFinishes ==
  /\ pc = "cont"
  /\ m_currentWorkItem # NullItem
  /\ CurrentState # READY
  /\ getNextWorkItem(groups[m_currentWorkGroup]) = 0
  /\ ~hasBarrier(groups[m_currentWorkGroup])

\* the workitem command makes another group current
GroupSwitch ==
  /\ pc = "prompt" /\ pc' = "prompt"
  /\ m_currentWorkGroup' # m_currentWorkGroup

\* what the claim says of workitem: the target leaves the running or the
\* pending list, the displaced group joins the tail of the running list
SwitchReorders ==
  GroupSwitch =>
    IF m_currentWorkGroup' \in Range(m_runningGroups)
    THEN /\ m_runningGroups' \in
              {Append(r, m_currentWorkGroup) :
                 r \in Without(m_runningGroups, m_currentWorkGroup')}
         /\ m_pendingGroups' = m_pendingGroups
    ELSE /\ m_currentWorkGroup' \notin DOMAIN groups
         /\ m_runningGroups' = Append(m_runningGroups, m_currentWorkGroup)
         /\ m_pendingGroups' \in
              Without(m_pendingGroups, groups'[m_currentWorkGroup'].id)

\* C26 as claimed: when the current group finishes, the head of the running
\* list becomes current if there is one, else the head of the pending list
\* is instantiated and becomes current; a workitem switch reorders as said.
C26_HeadOfRunning ==
  [][/\ GroupFinishes =>
          IF m_runningGroups # <<>>
          THEN /\ m_currentWorkGroup' = Head(m_runningGroups)
               /\ m_runningGroups' = Tail(m_runningGroups)
               /\ m_pendingGroups' = m_pendingGroups
          ELSE IF m_pendingGroups # <<>>
          THEN /\ m_currentWorkGroup' \notin DOMAIN groups
               /\ groups'[m_currentWorkGroup'].id = Head(m_pendingGroups)
               /\ m_pendingGroups' = Tail(m_pendingGroups)
               /\ m_runningGroups' = <<>>
          ELSE m_currentWorkGroup' = 0
     /\ SwitchReorders]_vars

\* the group still has a work-item to run: one Ready or one at a barrier
Unfinished(g) == getNextWorkItem(g) # 0 \/ hasBarrier(g)

\* the position in the running list of the first group with a work-item
\* to run, 0 when there is none
FirstUnfinished ==
  IF \E i \in 1..Len(m_runningGroups) : Unfinished(groups[m_runningGroups[i]])
  THEN CHOOSE i \in 1..Len(m_runningGroups) :
         /\ Unfinished(groups[m_runningGroups[i]])
         /\ \A j \in 1..(i - 1) : ~Unfinished(groups[m_runningGroups[j]])
  ELSE 0

\* C26 as amended: when the current group finishes, the first group of the
\* running list that has a work-item to run becomes current and the groups
\* before it, all of whose work-items finished, are destroyed; when the
\* running list has no such group it is emptied and the head of the pending
\* list is instantiated and becomes current; a workitem switch reorders as
\* claimed.
C26_FirstUnfinishedRunning ==
  [][/\ GroupFinishes =>
          IF FirstUnfinished # 0
          THEN /\ m_currentWorkGroup' = m_runningGroups[FirstUnfinished]
               /\ m_runningGroups' =
                    SubSeq(m_runningGroups, FirstUnfinished + 1, Len(m_runningGroups))
               /\ m_pendingGroups' = m_pendingGroups
               /\ DOMAIN groups' = DOMAIN groups \
                    ({m_currentWorkGroup} \cup
                     {m_runningGroups[j] : j \in 1..(FirstUnfinished - 1)})
          ELSE /\ m_runningGroups' = <<>>
               /\ IF m_pendingGroups # <<>>
                  THEN /\ m_currentWorkGroup' \notin DOMAIN groups
                       /\ groups'[m_currentWorkGroup'].id = Head(m_pendingGroups)
                       /\ m_pendingGroups' = Tail(m_pendingGroups)
                       /\ DOMAIN groups' = {m_currentWorkGroup'}
                  ELSE m_currentWorkGroup' = 0 /\ groups' = EmptyHeap
     /\ SwitchReorders]_vars

\* after workitem switches: group 3 was taken out of the running list <<2, 3>>
\* and the displaced group 1 was put behind group 2
C26_Witness ==
  /\ pc = "prompt"
  /\ m_currentWorkGroup = 3
  /\ m_runningGroups = <<2, 1>>
  /\ m_pendingGroups = <<>>

(***************************************************************************)
(* Barriers.                                                               *)
(***************************************************************************)
\* the groups that are live before and after the step
Surviving == DOMAIN groups \cap DOMAIN groups'

\* WorkItem.step was issued on item i of group h
Stepped(h, i) == groups'[h].items[i].pos # groups[h].items[i].pos

\* clearBarrier released item i of group h
Released(h, i) ==
  /\ groups[h].items[i].state = BARRIER
  /\ groups'[h].items[i].state = READY
  /\ ~Stepped(h, i)

\* the barriers an item at position p has behind it
BarriersBefore(code, p) == {b \in 1..(p - 1) : b <= Len(code) /\ code[b].op = "barrier"}

\* C27: items are released from a barrier only by nextWorkItem, called in
\* continue or at the start of run, for a group with no Ready item and an
\* item at a barrier; WorkItem.step is issued only on the current work-item
\* and only when it is Ready (never on an item at a barrier, by continue,
\* step or next); and when it is issued on an item that has a barrier
\* behind it, every item of its group has reached that barrier.
C27_BarrierDiscipline ==
  [][\A h \in Surviving : \A i \in DOMAIN groups[h].items :
       /\ Released(h, i) =>
            /\ pc = "cont"
            /\ getNextWorkItem(groups[h]) = 0
            /\ hasBarrier(groups[h])
            /\ h \in {m_currentWorkGroup} \cup Range(m_runningGroups)
       /\ Stepped(h, i) =>
            /\ m_currentWorkItem = ItemPtr(h, i)
            /\ groups[h].items[i].state = READY
            /\ \A b \in BarriersBefore(KernelCode(m_kernel), groups[h].items[i].pos) :
                 \A j \in DOMAIN groups[h].items : groups[h].items[j].pos > b
     ]_vars

\* kA in a group of two: after the barrier was cleared one work-item has
\* been stepped to its end and the other is Ready behind the barrier
C27_Witness ==
  /\ pc = "prompt"
  /\ m_kernel = "kA"
  /\ m_currentWorkGroup # 0
  /\ Len(groups[m_currentWorkGroup].items) = 2
  /\ \E i, j \in 1..2 :
       /\ groups[m_currentWorkGroup].items[i] = [state |-> FINISHED, pos |-> 4]
       /\ groups[m_currentWorkGroup].items[j] = [state |-> READY, pos |-> 3]

(***************************************************************************)
(* next: an interactive device under next, step and continue, in which a   *)
(* command that was started goes on.                                       *)
(***************************************************************************)
NextInvocations == { Inv(1, <<0>>, <<2>>, <<2>>), Inv(1, <<0>>, <<1>>, <<1>>) }

InitNext == Init /\ m_interactive /\ ~m_quickMode

RunNext == RunWith(NextKernels, NextInvocations, 1)

NextNext ==
  \/ RunNext
  \/ CmdNext
  \/ CmdStep
  \/ StepInstr
  \/ ContEnter
  \/ Cont
  \/ Teardown

SpecNext == InitNext /\ [][NextNext]_vars /\ WF_vars(StepInstr)

\* the call stack size of the current work-item
CurrentDepth ==
  CallStackSize(KernelCode(m_kernel), Item(groups, m_currentWorkItem))

\* C28: a next that has started comes back to the prompt (or ends the run
\* with a fatal error), and when it comes back to the prompt the call stack
\* of the current work-item is not deeper than when it started.
C28_NextReturns ==
  /\ (pc = "stepping" /\ caller = "next") ~> (pc \in {"prompt", "teardown"})
  /\ [][(pc = "stepping" /\ caller = "next" /\ pc' = "prompt") =>
          CurrentDepth' <= prevDepth]_vars

(***************************************************************************)
(* The partition of the groups of a run.                                   *)
(***************************************************************************)
\* the live WorkGroup objects the scheduler holds: the current one and the
\* running list
Held == (IF m_currentWorkGroup = 0 THEN {} ELSE {m_currentWorkGroup}) \cup
        Range(m_runningGroups)

\* where a coordinate is
Places(c) ==
  [pending |-> Count(m_pendingGroups, c),
   live |-> Cardinality({h \in DOMAIN groups : groups[h].id = c}),
   made |-> Count(schedule, c)]

\* the run is between its start and its teardown
InRun == pc \in {"prompt", "cont", "stepping", "hung"}

\* C29: during a non-quick run every live WorkGroup is the current group or
\* one entry of the running list, the running list holds no group twice and
\* not the current group, and every group coordinate of the run is either
\* once in the pending list and never instantiated, or not pending and
\* instantiated once, live (current or running) or destroyed.
C29_GroupPartition ==
  (InRun /\ ~m_quickMode) =>
    /\ DOMAIN groups = Held
    /\ \A i, j \in 1..Len(m_runningGroups) :
         i # j => m_runningGroups[i] # m_runningGroups[j]
    /\ m_currentWorkGroup \notin Range(m_runningGroups)
    /\ \A c \in Range(AllGroups(m_numGroups)) :
         LET p == Places(c)
         IN /\ p.pending + p.made = 1
            /\ p.live <= p.made
    /\ \A c \in Range(m_pendingGroups) \cup Range(schedule) :
         c \in Range(AllGroups(m_numGroups))

====
